---- MODULE Spec2Model ----
(***************************************************************************)
(* FishyNW Fishing Tools 1.7.8 (src/app.py): the trolling depth            *)
(* calculator, the sunrise/sunset bite windows, the wind forecast, the     *)
(* collaborator fetches, the consent gate and the analytics events, as     *)
(* state machines.                                                         *)
(*                                                                         *)
(* Numbers.  Python floats are modelled in fixed point: a real r is the    *)
(* integer floor(r * Scale).  Depth results, which the code rounds to one  *)
(* decimal, are integers in tenths of a foot.  Times are minutes.          *)
(***************************************************************************)
EXTENDS Integers, Sequences, FiniteSets

VARIABLES
  speed_mph,     \* Trolling depth page: Speed (mph) input, in tenths of a mph
  weight_oz,     \* Weight (oz) input, in half ounces
  line_out_ft,   \* Line out (feet) input, in feet
  line_type,     \* Line type radio
  line_test_lb,  \* Line test (lb) selectbox, in pounds
  depth,         \* the value trolling_depth returned in the last render
  tool,          \* st.session_state["tool"]
  lat,           \* st.session_state["lat"]: None or Some(1/10000 degrees)
  lon,           \* st.session_state["lon"]
  best_go,       \* st.session_state["best_go"]
  analytics_consent,  \* st.session_state["analytics_consent"], None if not set
  ga_open_sent,  \* "ga_open_sent" in st.session_state
  ga_last_tool,  \* st.session_state["ga_last_tool"]
  ga_client_id,  \* st.session_state["ga_client_id"], None if not set
  secrets,       \* st.secrets: GA_ENABLED, GA_MEASUREMENT_ID, GA_API_SECRET
  events,        \* the calls of ga_send_event of the run, in order
  pc,            \* where the script run stands: "idle" between two runs
  start_day,     \* the "Start date" the run read, a day number; Today before
  end_day,       \* the "End date" the run read; Today before
  day_list,      \* day_list of the Best fishing times page
  idx,           \* the index in day_list of the day the loop is at
  page,          \* what the run has written to the page so far
  call,          \* the last external call: function, response, result
  sun_log,       \* the (day, get_sun_times result) of every day of this run
  times,         \* the value best_times returned last
  wind,          \* the value get_wind_hours returned last
  now_local,     \* datetime.now() read by the Wind forecast page
  split          \* the value split_current_future_winds returned last

depthVars ==
  <<speed_mph, weight_oz, line_out_ft, line_type, line_test_lb, depth>>

sessionVars == <<tool, lat, lon, best_go>>

analyticsVars ==
  <<analytics_consent, ga_open_sent, ga_last_tool, ga_client_id, secrets,
    events>>

runVars ==
  <<pc, start_day, end_day, day_list, idx, page, call, sun_log, times, wind,
    now_local, split>>

vars == <<depthVars, sessionVars, analyticsVars, runVars>>

(***************************************************************************)
(* Fixed-point arithmetic standing for the float operations of the code.   *)
(***************************************************************************)
\* resolution of the fixed-point reals: r is held as floor(r * Scale)
Scale == 1000000

\* the square root of Scale: the digit base MulFx splits its factors in
Half == 1000

\* Python None
None == [absent |-> TRUE]

\* a Python value that is not None
Some(v) == [absent |-> FALSE, val |-> v]

\* a * b on fixed-point reals, exact floor(a * b / Scale) without leaving 32 bits
MulFx(a, b) ==
  LET ah == a \div Half
      al == a % Half
      bh == b \div Half
      bl == b % Half
  IN  ah * bh + ((ah * bl + al * bh + ((al * bl) \div Half)) \div Half)

\* 10^n
RECURSIVE Pow10(_)
Pow10(n) == IF n = 0 THEN 1 ELSE 10 * Pow10(n - 1)

\* 2^n
RECURSIVE Pow2(_)
Pow2(n) == IF n = 0 THEN 1 ELSE 2 * Pow2(n - 1)

\* the first n digits of r / b after the point, as an integer (long division)
RECURSIVE FracDigits(_, _, _)
FracDigits(r, b, n) ==
  IF n = 0 THEN 0
  ELSE ((r * 10) \div b) * Pow10(n - 1) + FracDigits((r * 10) % b, b, n - 1)

\* the number of decimal digits of Scale
ScaleDigits == 6

\* a / b on fixed-point reals, a >= 0 and b > 0: floor(a * Scale / b)
DivFx(a, b) == (a \div b) * Scale + FracDigits(a % b, b, ScaleDigits)

\* ln 2 as a fixed-point real
Ln2 == 693147

\* sum of term/n + term*z2/(n+2) + ... : the series of atanh
RECURSIVE AtanhSeries(_, _, _)
AtanhSeries(term, z2, n) ==
  IF term = 0 THEN 0
  ELSE (term \div n) + AtanhSeries(MulFx(term, z2), z2, n + 2)

\* ln x for a fixed-point x > 0: halve or double into [1, 2), then
\* ln m = 2 atanh((m - 1) / (m + 1))
RECURSIVE LnFx(_)
LnFx(x) ==
  IF x >= 2 * Scale THEN Ln2 + LnFx(x \div 2)
  ELSE IF x < Scale THEN LnFx(x * 2) - Ln2
  ELSE LET z == DivFx(x - Scale, x + Scale)
       IN  2 * AtanhSeries(z, MulFx(z, z), 1)

\* sum of term + term*r/n + ... : the Taylor series of exp
RECURSIVE ExpSeries(_, _, _)
ExpSeries(term, r, n) ==
  IF term = 0 THEN 0
  ELSE term + ExpSeries(MulFx(term, r) \div n, r, n + 1)

\* e^y for a fixed-point y: y = k ln 2 + r with 0 <= r < ln 2, e^y = 2^k e^r
ExpFx(y) ==
  LET k == y \div Ln2
      s == ExpSeries(Scale, y - k * Ln2, 1)
  IN  IF k >= 0 THEN s * Pow2(k) ELSE s \div Pow2(-k)

\* x ** e for fixed-point x > 0 (Python float power): e^(e ln x)
PowFx(x, e) == ExpFx(MulFx(e, LnFx(x)))

(***************************************************************************)
(* trolling_depth (src/app.py 342-352)                                     *)
(***************************************************************************)
\* the line types of the "Line type" radio
LineTypes == {"Braid", "Fluorocarbon", "Monofilament"}

\* type_drag with the values of Braid and Monofilament exchanged
TypeDragSwapped ==
  [Braid |-> 1200000, Fluorocarbon |-> 1120000, Monofilament |-> 1000000]

\* the keys and values of the type_drag dictionary: 1.0, 1.12, 1.2
TypeDrag ==
  [Braid |-> 1000000, Fluorocarbon |-> 1120000, Monofilament |-> 1200000]

\* the literal 20.0 test_ratio divides by: the baseline line test, in pounds
BaselineTest == 20

\* the exponent 0.35 of test_drag
TestExponent == 350000

\* the exponent 1.35 of the speed
SpeedExponent == 1350000

\* the coefficient 0.135
DepthCoefficient == 135000

\* a raised exception
Raised(e) == [absent |-> FALSE, raised |-> e]

\* units a foot is split in before rounding: thousandths
FootUnits == 1000

\* Round1 as a truncation to one decimal would compute it
Round1Truncate(thousandths) == thousandths \div 100

\* round(x, 1) of a depth held in thousandths of a foot: the nearest tenth,
\* a tie going to the even tenth
Round1(thousandths) ==
  LET q == thousandths \div 100
      r == thousandths % 100
  IN  IF r > 50 \/ (r = 50 /\ q % 2 = 1) THEN q + 1 ELSE q

\* DepthFormula with the parentheses of the division misplaced:
\* 0.135 * (weight / total_drag * speed ** 1.35) * line_out
DepthFormulaTimesSpeed(speed, weight, line_out, type_drag, test) ==
  LET test_ratio == DivFx(test * Scale, BaselineTest * Scale)
      test_drag  == PowFx(test_ratio, TestExponent)
      total_drag == MulFx(type_drag, test_drag)
      per_foot   == MulFx(DepthCoefficient,
                          MulFx(DivFx((weight * Scale) \div 2, total_drag),
                                PowFx((speed * Scale) \div 10, SpeedExponent)))
  IN  Round1(MulFx(per_foot, line_out * FootUnits))

\* the arithmetic of trolling_depth on positive inputs: speed in tenths of a
\* mph, weight in half ounces, line out in feet, type_drag a fixed-point
\* real, line test in pounds; the depth in tenths of a foot
DepthFormula(speed, weight, line_out, type_drag, test) ==
  LET test_ratio == DivFx(test * Scale, BaselineTest * Scale)
      test_drag  == PowFx(test_ratio, TestExponent)
      total_drag == MulFx(type_drag, test_drag)
      per_foot   == MulFx(DepthCoefficient,
                          DivFx((weight * Scale) \div 2,
                                MulFx(total_drag,
                                      PowFx((speed * Scale) \div 10,
                                            SpeedExponent))))
  IN  Round1(MulFx(per_foot, line_out * FootUnits))

\* trolling_depth with the type_drag lookup moved before the validation
trolling_depth_lookup_first(speed, weight, line_out, type, test) ==
  IF type \notin DOMAIN TypeDrag THEN Raised("KeyError")
  ELSE IF speed <= 0 \/ weight <= 0 \/ line_out <= 0 \/ test <= 0 THEN None
  ELSE Some(DepthFormula(speed, weight, line_out, TypeDrag[type], test))

\* trolling_depth(speed_mph, weight_oz, line_out_ft, line_type, line_test_lb):
\* None, a depth in tenths of a foot, or the KeyError of the dictionary
trolling_depth(speed, weight, line_out, type, test) ==
  IF speed <= 0 \/ weight <= 0 \/ line_out <= 0 \/ test <= 0 THEN None
  ELSE IF type \notin DOMAIN TypeDrag THEN Raised("KeyError")
  ELSE Some(DepthFormula(speed, weight, line_out, TypeDrag[type], test))

(***************************************************************************)
(* Python values.  Every value a function hands back is a record: None,    *)
(* Some(v) for a value that is not None, Raised(e) for an exception that   *)
(* leaves the function.  A JSON value carries its type in t: "dict" (a     *)
(* record), "list" (a sequence), "str", "num", "null".  A string is held   *)
(* as the sequence of its comma-separated fields; a field is a number      *)
(* (what float() accepts), an ISO timestamp, or other text.                *)
(***************************************************************************)
IsRaised(x) == "raised" \in DOMAIN x

JDict(r) == [t |-> "dict", keys |-> r]

JList(s) == [t |-> "list", items |-> s]

JStr(fields) == [t |-> "str", fields |-> fields]

JNum(n) == [t |-> "num", n |-> n]

JNull == [t |-> "null"]

\* a field of a string that reads as the number n
NumField(n) == [kind |-> "num", n |-> n]

\* a field of a string written YYYY-MM-DDTHH:MM, with whatever digits
IsoField(day, hh, mm) == [kind |-> "iso", day |-> day, hh |-> hh, mm |-> mm]

\* a field of a string that is neither
TextField == [kind |-> "text"]

\* a response body that is not JSON
NotJson == [t |-> "notjson"]

\* requests.get timed out or could not connect
TimedOut == [kind |-> "timeout"]

\* an HTTP response with its status code and body
Http(status, body) == [kind |-> "http", status |-> status, body |-> body]

\* get_json(url, timeout): requests.get raises on a timeout,
\* raise_for_status on a 4xx or 5xx status, r.json() on a body not JSON
get_json(resp) ==
  IF resp.kind = "timeout" THEN Raised("Timeout")
  ELSE IF resp.status >= 400 /\ resp.status < 600 THEN Raised("HTTPError")
  ELSE IF resp.body.t = "notjson" THEN Raised("JSONDecodeError")
  ELSE Some(resp.body)

\* x[key] for a JSON value x and a string key
GetItem(x, key) ==
  IF x.t # "dict" THEN Raised("TypeError")
  ELSE IF key \notin DOMAIN x.keys THEN Raised("KeyError")
  ELSE Some(x.keys[key])

\* x[0] for a JSON value x
GetFirst(x) ==
  IF x.t # "list" THEN Raised("TypeError")
  ELSE IF Len(x.items) = 0 THEN Raised("IndexError")
  ELSE Some(x.items[1])

\* x.get(key) for a JSON value x
DictGet(x, key) ==
  IF x.t # "dict" THEN Raised("AttributeError")
  ELSE IF key \notin DOMAIN x.keys THEN Some(JNull)
  ELSE Some(x.keys[key])

\* the truth value Python gives a JSON value
Truthy(x) ==
  CASE x.t = "null" -> FALSE
    [] x.t = "str"  -> Len(x.fields) > 0
    [] x.t = "list" -> Len(x.items) > 0
    [] x.t = "num"  -> x.n # 0
    [] OTHER        -> TRUE

\* float(s) for a field of a string
Float(f) == IF f.kind = "num" THEN Some(f.n) ELSE Raised("ValueError")

\* datetime.fromisoformat(x): a datetime is [day, hh, mm]
fromisoformat(x) ==
  IF x.t # "str" THEN Raised("TypeError")
  ELSE IF Len(x.fields) # 1 THEN Raised("ValueError")
  ELSE LET f == x.fields[1]
       IN  IF f.kind # "iso" THEN Raised("ValueError")
           ELSE IF f.hh \notin 0 .. 23 \/ f.mm \notin 0 .. 59
                  THEN Raised("ValueError")
           ELSE Some([day |-> f.day, hh |-> f.hh, mm |-> f.mm])

\* dt + timedelta(hours=h): the carry into the hour and the day
AddHours(dt, h) ==
  LET total == dt.hh * 60 + dt.mm + h * 60
  IN  [day |-> dt.day + (total \div 1440),
       hh  |-> (total % 1440) \div 60,
       mm  |-> total % 60]

\* "except" catching only the exceptions of requests
CatchRequestException(outcome, fallback) ==
  IF IsRaised(outcome) /\ outcome.raised \in {"Timeout", "HTTPError"}
    THEN fallback
    ELSE outcome

\* try: ... except Exception: return fallback
CatchException(outcome, fallback) ==
  IF IsRaised(outcome) THEN fallback ELSE outcome

\* the try block of get_location
get_location_try(resp) ==
  LET data == get_json(resp)
  IN  IF IsRaised(data) THEN data
      ELSE LET loc == DictGet(data.val, "loc")
           IN  IF IsRaised(loc) THEN loc
               ELSE IF ~Truthy(loc.val) THEN Some(<<None, None>>)
               ELSE IF loc.val.t # "str" THEN Raised("AttributeError")
               ELSE IF Len(loc.val.fields) # 2 THEN Raised("ValueError")
               ELSE LET lat_s == Float(loc.val.fields[1])
                        lon_s == Float(loc.val.fields[2])
                    IN  IF IsRaised(lat_s) THEN lat_s
                        ELSE IF IsRaised(lon_s) THEN lon_s
                        ELSE Some(<<lat_s, lon_s>>)

\* get_location() returning the latitude without the longitude
get_location_lat_only(resp) ==
  LET pair == CatchException(get_location_try(resp), Some(<<None, None>>))
  IN  IF IsRaised(pair) THEN pair ELSE Some(<<pair.val[1], None>>)

\* get_location(): the pair (lat, lon), or (None, None)
get_location(resp) ==
  CatchException(get_location_try(resp), Some(<<None, None>>))

\* the try block of get_sun_times
get_sun_times_try(la, lo, day_iso, resp) ==
  LET data == get_json(resp)
  IN  IF IsRaised(data) THEN data
      ELSE LET daily == GetItem(data.val, "daily")
           IN  IF IsRaised(daily) THEN daily
               ELSE LET rises == GetItem(daily.val, "sunrise")
                        sets  == GetItem(daily.val, "sunset")
                    IN  IF IsRaised(rises) THEN rises
                        ELSE IF IsRaised(GetFirst(rises.val))
                               THEN GetFirst(rises.val)
                        ELSE IF IsRaised(sets) THEN sets
                        ELSE IF IsRaised(GetFirst(sets.val))
                               THEN GetFirst(sets.val)
                        ELSE LET sr == fromisoformat(GetFirst(rises.val).val)
                                 ss == fromisoformat(GetFirst(sets.val).val)
                             IN  IF IsRaised(sr) THEN sr
                                 ELSE IF IsRaised(ss) THEN ss
                                 ELSE Some(<<sr, ss>>)

\* get_sun_times(la, lo, day_iso): the pair (sunrise, sunset), or
\* (None, None); resp is what the server answers to the request for the
\* sunrise and sunset of day_iso at (lat, lon)
get_sun_times(la, lo, day_iso, resp) ==
  CatchException(get_sun_times_try(la, lo, day_iso, resp),
                 Some(<<None, None>>))

\* best_times with the evening window built from sr
best_times_evening_from_sunrise(la, lo, day_obj, resp) ==
  LET sun == get_sun_times(la, lo, day_obj, resp)
  IN  IF IsRaised(sun) THEN sun
      ELSE LET sr == sun.val[1]
               ss == sun.val[2]
           IN  IF sr.absent \/ ss.absent THEN None
               ELSE Some([morning |-> <<AddHours(sr.val, -1), AddHours(sr.val, 1)>>,
                          evening |-> <<AddHours(sr.val, -1), AddHours(sr.val, 1)>>])

\* best_times without "if not sr or not ss: return None"
best_times_unchecked(la, lo, day_obj, resp) ==
  LET sun == get_sun_times(la, lo, day_obj, resp)
  IN  IF IsRaised(sun) THEN sun
      ELSE LET sr == sun.val[1]
               ss == sun.val[2]
           IN  IF sr.absent \/ ss.absent THEN Raised("TypeError")
               ELSE Some([morning |-> <<AddHours(sr.val, -1), AddHours(sr.val, 1)>>,
                          evening |-> <<AddHours(ss.val, -1), AddHours(ss.val, 1)>>])

\* best_times(la, lo, day_obj): None, or the dictionary of the two windows
best_times(la, lo, day_obj, resp) ==
  LET sun == get_sun_times(la, lo, day_obj, resp)
  IN  IF IsRaised(sun) THEN sun
      ELSE LET sr == sun.val[1]
               ss == sun.val[2]
           IN  IF sr.absent \/ ss.absent THEN None
               ELSE Some([morning |-> <<AddHours(sr.val, -1), AddHours(sr.val, 1)>>,
                          evening |-> <<AddHours(ss.val, -1), AddHours(ss.val, 1)>>])

\* out with out[k] = v
DictPut(out, k, v) ==
  [x \in (DOMAIN out) \cup {k} |-> IF x = k THEN v ELSE out[x]]

\* for t, s in zip(hours, speeds): out[t] = round(s, 1), from the i-th pair on;
\* a speed is a JSON number in thousandths of a mph, rounded to tenths
RECURSIVE ZipRound(_, _, _, _)
ZipRound(hours, speeds, i, out) ==
  IF i > Len(hours) \/ i > Len(speeds) THEN Some(out)
  ELSE IF speeds[i].t # "num" THEN Raised("TypeError")
  ELSE ZipRound(hours, speeds, i + 1,
                DictPut(out, hours[i], Round1(speeds[i].n)))

\* the try block of get_wind_hours
get_wind_hours_try(la, lo, resp) ==
  LET data == get_json(resp)
  IN  IF IsRaised(data) THEN data
      ELSE LET hourly == GetItem(data.val, "hourly")
           IN  IF IsRaised(hourly) THEN hourly
               ELSE LET hours  == GetItem(hourly.val, "time")
                        speeds == GetItem(hourly.val, "wind_speed_10m")
                    IN  IF IsRaised(hours) THEN hours
                        ELSE IF IsRaised(speeds) THEN speeds
                        ELSE IF hours.val.t # "list" \/ speeds.val.t # "list"
                               THEN Raised("TypeError")
                        ELSE ZipRound(hours.val.items, speeds.val.items, 1, <<>>)

\* get_wind_hours(lat, lon): the mapping time -> mph, or the empty mapping
get_wind_hours(la, lo, resp) ==
  CatchException(get_wind_hours_try(la, lo, resp), Some(<<>>))

(***************************************************************************)
(* split_current_future_winds (src/app.py 323-340).  wind_by_time is a     *)
(* function from keys (JSON values) to speeds in tenths of a mph.          *)
(***************************************************************************)
\* sorted() can order the keys: Python compares str with str and number with
\* number, and raises TypeError for None or for two kinds; one key alone is
\* compared with nothing
Sortable(ks) ==
  \/ Cardinality(ks) <= 1
  \/ \A k \in ks : k.t = "str"
  \/ \A k \in ks : k.t = "num"

\* a < b for two timestamps written YYYY-MM-DDTHH:MM, compared as strings
\* (digit by digit) or as datetimes: the same order
StampBefore(a, b) ==
  \/ a.day < b.day
  \/ a.day = b.day /\ a.hh < b.hh
  \/ a.day = b.day /\ a.hh = b.hh /\ a.mm < b.mm

\* a < b for two keys sorted() compares: numbers, or strings of one field,
\* where timestamps begin with a digit and sort before other text, which
\* begins with a letter
KeyBefore(a, b) ==
  IF a.t = "num" /\ b.t = "num" THEN a.n < b.n
  ELSE IF a.t # "str" \/ b.t # "str" THEN FALSE
  ELSE LET fa == a.fields[1]
           fb == b.fields[1]
       IN  \/ fa.kind = "iso" /\ fb.kind = "iso" /\ StampBefore(fa, fb)
           \/ fa.kind = "iso" /\ fb.kind # "iso"

\* sorted(list(wind_by_time.keys())) for keys sorted() can order
RECURSIVE SortedKeys(_)
SortedKeys(ks) ==
  IF ks = {} THEN <<>>
  ELSE LET first == CHOOSE k \in ks : \A o \in ks : ~KeyBefore(o, k)
       IN  <<first>> \o SortedKeys(ks \ {first})

\* dt.strftime("%a %b %d, %I %p").replace(" 0", " ").replace(":00", ""):
\* the date without its year, the hour on the 12-hour clock, AM or PM
Label(dt) ==
  [day |-> dt.day,
   h   |-> IF dt.hh % 12 = 0 THEN 12 ELSE dt.hh % 12,
   ap  |-> IF dt.hh < 12 THEN "AM" ELSE "PM"]

\* current[-6:]
CurrentShown == 6

\* future[:12]
FutureShown == 12

\* xs[-n:]
LastOf(xs, n) == IF Len(xs) <= n THEN xs ELSE SubSeq(xs, Len(xs) - n + 1, Len(xs))

\* xs[:n]
FirstOf(xs, n) == IF Len(xs) <= n THEN xs ELSE SubSeq(xs, 1, n)

\* dt <= now_local
NotAfter(dt, now) == ~StampBefore(now, dt)

\* "for k in keys" from the i-th key on
RECURSIVE SplitLoop(_, _, _, _, _, _)
SplitLoop(keys, wind_by_time, now, i, current, future) ==
  IF i > Len(keys) THEN <<current, future>>
  ELSE LET k  == keys[i]
           dt == fromisoformat(k)
       IN  IF IsRaised(dt)
             THEN SplitLoop(keys, wind_by_time, now, i + 1, current, future)
           ELSE LET entry == <<Label(dt.val), wind_by_time[k]>>
                IN  IF NotAfter(dt.val, now)
                      THEN SplitLoop(keys, wind_by_time, now, i + 1,
                                     Append(current, entry), future)
                      ELSE SplitLoop(keys, wind_by_time, now, i + 1,
                                     current, Append(future, entry))

\* split_current_future_winds(wind_by_time, now_local): (current, future),
\* or the TypeError of sorted()
split_current_future_winds(wind_by_time, now) ==
  IF ~Sortable(DOMAIN wind_by_time) THEN Raised("TypeError")
  ELSE LET lists == SplitLoop(SortedKeys(DOMAIN wind_by_time), wind_by_time,
                              now, 1, <<>>, <<>>)
       IN  Some(<<LastOf(lists[1], CurrentShown), FirstOf(lists[2], FutureShown)>>)

(***************************************************************************)
(* The inputs trolling_depth is applied to.                                *)
(***************************************************************************)
\* spacing of the speeds tried, in tenths of a mph
SpeedStep == 5

\* the speeds tried are SpeedStep * (-1 .. MaxSpeedSteps) and the default
MaxSpeedSteps == 6

\* the weights tried are -1, 0 and 2^(0 .. MaxWeightExp) half ounces
MaxWeightExp == 4

\* the shortest positive line out tried, in feet
LineBase == 15

\* the lines out tried are -LineBase, 0, LineBase * 2^(0 .. MaxLineExp) and
\* the default
MaxLineExp == 3

\* value=1.3 of the "Speed (mph)" input, in tenths of a mph
DefaultSpeed == 13

\* value=2.0 of the "Weight (oz)" input, in half ounces
DefaultWeight == 4

\* value=100.0 of the "Line out (feet)" input
DefaultLineOut == 100

\* the options of the "Line test (lb)" selectbox
LineTestOptions == <<6, 8, 10, 12, 15, 20, 25, 30, 40, 50>>

\* index=3 of the selectbox, counted from 0: the fourth option
DefaultLineTest == LineTestOptions[3 + 1]

Speeds == {DefaultSpeed} \cup {SpeedStep * i : i \in -1 .. MaxSpeedSteps}

Weights == {-1, 0} \cup {Pow2(i) : i \in 0 .. MaxWeightExp}

LinesOut ==
  {-LineBase, 0, DefaultLineOut}
    \cup {LineBase * Pow2(i) : i \in 0 .. MaxLineExp}

\* the three line types and one that is no key of type_drag
TypesTried == LineTypes \cup {"Wire"}

\* the selectbox options and one line test that is not positive
LineTests == {0} \cup {LineTestOptions[i] : i \in DOMAIN LineTestOptions}

(***************************************************************************)
(* What the servers may answer, and what the user may enter.               *)
(***************************************************************************)
\* date.today(), as a day number (the Julian day number of 2026-01-18)
Today == 2461059

\* the dates the user may pick are Today .. Today + MaxRangeDays
MaxRangeDays == 1

\* the cap of day_list: "if len(day_list) >= 14: break"
MaxDaysShown == 14

Days == Today .. Today + MaxRangeDays

\* the (sunrise hour, minute, sunset hour, minute) a server may report
SunPairs == {<<7, 30, 17, 15>>, <<0, 30, 23, 30>>}

\* a JSON string holding one ISO timestamp
IsoStr(day, hh, mm) == JStr(<<IsoField(day, hh, mm)>>)

\* the body of a forecast with the daily sunrise and sunset lists given
DailyBody(rises, sets) ==
  JDict([daily |-> JDict([sunrise |-> rises, sunset |-> sets])])

\* a complete forecast body for day d
SunBody(d, p) ==
  DailyBody(JList(<<IsoStr(d, p[1], p[2])>>), JList(<<IsoStr(d, p[3], p[4])>>))

\* bodies that are JSON but lack a usable sunrise or sunset for day d
BrokenSunBodies(d) ==
  { JDict([reason |-> JStr(<<TextField>>)]),
    JList(<<>>),
    JDict([daily |-> JDict([sunset |-> JList(<<IsoStr(d, 17, 15)>>)])]),
    DailyBody(JList(<<>>), JList(<<IsoStr(d, 17, 15)>>)),
    DailyBody(JList(<<JNull>>), JList(<<JNull>>)),
    DailyBody(JList(<<IsoStr(d, 7, 30)>>), JList(<<JStr(<<TextField>>)>>)),
    DailyBody(JList(<<IsoStr(d, 7, 30)>>), JList(<<IsoStr(d, 24, 15)>>)) }

\* the answers to the sunrise/sunset request for day d
SunResponses(d) ==
  {TimedOut, Http(404, NotJson), Http(200, NotJson)}
    \cup {Http(200, b) : b \in BrokenSunBodies(d)}
    \cup {Http(s, SunBody(d, p)) : s \in {200, 300, 500}, p \in SunPairs}

\* the "loc" values ipinfo may send: "lat,lon", two numbers that are no
\* latitude and longitude ("91.2345,-217.4260"), and values that are no pair
LocValues ==
  { JStr(<<NumField(476588), NumField(-1174260)>>),
    JStr(<<NumField(912345), NumField(-2174260)>>),
    JStr(<<>>),
    JStr(<<NumField(476588)>>),
    JStr(<<TextField, TextField>>),
    JStr(<<NumField(476588), NumField(-1174260), NumField(0)>>),
    JNum(5),
    JNull }

\* the answers to the ipinfo request
LocResponses ==
  {TimedOut, Http(429, NotJson), Http(200, NotJson), Http(200, JList(<<>>)),
   Http(200, JDict([ip |-> JStr(<<TextField>>)]))}
    \cup {Http(200, JDict([loc |-> l])) : l \in LocValues}
    \cup {Http(s, JDict([loc |-> JStr(<<NumField(476588), NumField(-1174260)>>)]))
            : s \in {300, 500}}

\* the hours of the wind forecast
WindHours == <<IsoStr(Today, 6, 0), IsoStr(Today, 7, 0)>>

\* an hourly wind forecast body
HourlyBody(ts, ss) ==
  JDict([hourly |-> JDict([time |-> ts, wind_speed_10m |-> ss])])

\* bodies of the wind forecast: whole, and lacking a field or a speed
WindBodies ==
  { HourlyBody(JList(WindHours), JList(<<JNum(5250), JNum(12349)>>)),
    HourlyBody(JList(WindHours), JList(<<JNum(5250)>>)),
    HourlyBody(JList(<<>>), JList(<<>>)),
    HourlyBody(JList(WindHours), JList(<<JNum(5250), JNull>>)),
    HourlyBody(JNull, JList(<<JNum(5250)>>)),
    HourlyBody(JList(<<JNull, IsoStr(Today, 7, 0)>>),
               JList(<<JNum(5250), JNum(12349)>>)),
    HourlyBody(JList(<<IsoStr(Today, 6, 0), JStr(<<TextField>>)>>),
               JList(<<JNum(5250), JNum(12349)>>)),
    JDict([hourly |-> JDict([time |-> JList(WindHours)])]),
    JDict([reason |-> JStr(<<TextField>>)]) }

\* the answers to the wind request
WindResponses ==
  {TimedOut, Http(500, NotJson), Http(200, NotJson)}
    \cup {Http(200, b) : b \in WindBodies}
    \cup {Http(s, HourlyBody(JList(WindHours),
                             JList(<<JNum(5250), JNum(12349)>>)))
            : s \in {300, 404}}

\* a datetime
DateTime(day, hh, mm) == [day |-> day, hh |-> hh, mm |-> mm]

\* what datetime.now() may be when the Wind forecast page reads it
Nows == {DateTime(Today, 6, 0), DateTime(Today, 6, 30)}

\* latitudes the user may enter, in 1/10000 degree: within min_value -90.0
\* and max_value 90.0
ManualLats == {0, 900000}

\* longitudes the user may enter: within -180.0 and 180.0
ManualLons == {-1800000}

(***************************************************************************)
(* The script run (src/app.py 766-1083).  A button press or a changed      *)
(* input reruns the script from the top; the run is split where it waits   *)
(* for a server.                                                           *)
(***************************************************************************)
\* no external call yet in this step
NoCall == [fn |-> "none"]

Called(fn, resp, result) == [fn |-> fn, resp |-> resp, result |-> result]

\* items the run writes to the page
Item(kind, day, text) == [kind |-> kind, day |-> day, text |-> text]

\* strftime("%I:%M %p").lstrip("0"): the 12-hour clock, the date dropped
Clock12(dt) ==
  [h  |-> IF dt.hh % 12 = 0 THEN 12 ELSE dt.hh % 12,
   m  |-> dt.mm,
   ap |-> IF dt.hh < 12 THEN "AM" ELSE "PM"]

\* a window card
Card(title, day, w) ==
  [kind |-> "card", day |-> day, text |-> title,
   from |-> Clock12(w[1]), to |-> Clock12(w[2])]

\* the while loop with the cap tested before the day is appended
RECURSIVE DayListFromCapBefore(_, _, _)
DayListFromCapBefore(cur, last, acc) ==
  IF cur > last THEN acc
  ELSE IF Len(acc) >= MaxDaysShown THEN Append(acc, cur)
  ELSE DayListFromCapBefore(cur + 1, last, Append(acc, cur))

\* the while loop building day_list from cur on
RECURSIVE DayListFrom(_, _, _)
DayListFrom(cur, last, acc) ==
  IF cur > last THEN acc
  ELSE IF Len(acc) + 1 >= MaxDaysShown THEN Append(acc, cur)
  ELSE DayListFrom(cur + 1, last, Append(acc, cur))

\* the index the loop goes to after a day without times, were it to "break"
AfterFailedDayBreak(i, n) == n + 1

\* the index the loop goes to after a day without times, were it to fetch
\* the day again
AfterFailedDayRetry(i, n) == i

\* the index the loop goes to after a day without times: "continue"
AfterFailedDay(i, n) == i + 1

\* APP_VERSION
APP_VERSION == "1.7.8"

\* the st.secrets a deployment may have: analytics configured, switched off
\* by GA_ENABLED, and without a measurement id and API secret
Deployments ==
  { [GA_ENABLED |-> TRUE, GA_MEASUREMENT_ID |-> "G-1", GA_API_SECRET |-> "k"],
    [GA_ENABLED |-> FALSE, GA_MEASUREMENT_ID |-> "G-1", GA_API_SECRET |-> "k"],
    [GA_ENABLED |-> TRUE, GA_MEASUREMENT_ID |-> "", GA_API_SECRET |-> ""] }

\* analytics_consent_required(): no choice has been stored
analytics_consent_required == analytics_consent = None

\* analytics_allowed() once any choice has been stored
analytics_allowed_after_choice(consent) == consent # None

\* analytics_allowed(): the stored choice is "accepted"
analytics_allowed(consent) == consent = Some("accepted")

\* ga_send_event(event_name, params) with the stored choice being consent:
\* the call, and whether it reached requests.post
ga_send_event(consent, event_name, params) ==
  [name   |-> event_name,
   params |-> params,
   posted |-> /\ secrets.GA_ENABLED
              /\ analytics_allowed(consent)
              /\ secrets.GA_MEASUREMENT_ID # ""
              /\ secrets.GA_API_SECRET # ""]

\* app_open sent by every render
AppOpenDueAlways == TRUE

\* "ga_open_sent" not in st.session_state
AppOpenDue == ~ga_open_sent

\* tool_open sent by every render
ToolOpenDueAlways(t) == TRUE

\* tool != st.session_state["ga_last_tool"]
ToolOpenDue(t) == ga_last_tool # Some(t)

\* the analytics of a render that passes the consent gate with the stored
\* choice consent: app_open once per session, then the sidebar, then
\* tool_open if the tool t differs from ga_last_tool, then the events of the
\* page; a render that an exception ends in the sidebar stops after app_open
Analytics(consent, t, page_events, past_sidebar) ==
  LET opens == IF AppOpenDue
                 THEN <<ga_send_event(consent, "app_open", APP_VERSION)>>
                 ELSE <<>>
      tools == IF past_sidebar /\ ToolOpenDue(t)
                 THEN <<ga_send_event(consent, "tool_open", t)>>
                 ELSE <<>>
      sent  == opens \o tools \o (IF past_sidebar THEN page_events ELSE <<>>)
  IN  /\ ga_open_sent' = TRUE
      /\ ga_last_tool' = IF past_sidebar THEN Some(t) ELSE ga_last_tool
      /\ events' = sent
      /\ ga_client_id' = IF \E i \in DOMAIN sent : sent[i].posted
                           THEN Some("uuid4")
                           ELSE ga_client_id

\* no script run is under way: the last one ended, normally or by an exception
Resting == pc \in {"idle", "crashed"}

\* a new script run can start and passes the consent gate
PastGate == Resting /\ ~analytics_consent_required

\* the locals and the page of a run that has just started
FreshRun ==
  /\ start_day' = Today
  /\ end_day' = Today
  /\ day_list' = <<>>
  /\ idx' = 0
  /\ page' = <<>>
  /\ sun_log' = <<>>
  /\ times' = None
  /\ wind' = None
  /\ now_local' = None
  /\ split' = None

InitSession ==
  /\ lat = None
  /\ lon = None
  /\ best_go = FALSE
  /\ pc = "idle"
  /\ start_day = Today
  /\ end_day = Today
  /\ day_list = <<>>
  /\ idx = 0
  /\ call = NoCall
  /\ sun_log = <<>>
  /\ times = None
  /\ wind = None
  /\ now_local = None
  /\ split = None

InitDepthInputs ==
  /\ speed_mph = DefaultSpeed
  /\ weight_oz = DefaultWeight
  /\ line_out_ft = DefaultLineOut
  /\ line_type = "Braid"
  /\ line_test_lb = DefaultLineTest

\* the first render of a session: the defaults, then the consent banner,
\* where the render stops
Init ==
  /\ tool = "Home"
  /\ InitSession
  /\ InitDepthInputs
  /\ depth = None
  /\ analytics_consent = None
  /\ ga_open_sent = FALSE
  /\ ga_last_tool = None
  /\ ga_client_id = None
  /\ secrets \in Deployments
  /\ events = <<>>
  /\ page = <<Item("banner", Today, "Analytics notice")>>

\* "Accept analytics" or "Decline analytics": the choice is stored and
\* st.rerun() runs the script again, which now passes the gate and renders
\* the page of the tool
ConsentChosen(choice) ==
  /\ Resting
  /\ analytics_consent_required
  /\ analytics_consent' = Some(choice)
  /\ Analytics(Some(choice), tool, <<>>, TRUE)
  /\ call' = NoCall
  /\ pc' = "idle"
  /\ FreshRun
  /\ UNCHANGED <<depthVars, sessionVars, secrets>>

\* lat, lon = get_location() in a button handler; an exception leaving
\* get_location would end the run
StoreLocation(resp, next_pc) ==
  LET loc == get_location(resp)
  IN  /\ call' = Called("get_location", resp, loc)
      /\ IF IsRaised(loc)
           THEN /\ pc' = "crashed"
                /\ UNCHANGED <<lat, lon>>
           ELSE /\ pc' = next_pc
                /\ lat' = loc.val[1]
                /\ lon' = loc.val[2]

\* sidebar button "Best fishing times"
NavBestTimes(resp) ==
  /\ PastGate
  /\ tool' = "Best fishing times"
  /\ StoreLocation(resp, "idle")
  /\ best_go' = FALSE
  /\ Analytics(analytics_consent, "Best fishing times", <<>>,
               ~IsRaised(get_location(resp)))
  /\ FreshRun
  /\ UNCHANGED <<depthVars, analytics_consent, secrets>>

\* sidebar button "Wind forecast"
NavWind(resp) ==
  /\ PastGate
  /\ tool' = "Wind forecast"
  /\ StoreLocation(resp, "winds")
  /\ Analytics(analytics_consent, "Wind forecast", <<>>,
               ~IsRaised(get_location(resp)))
  /\ FreshRun
  /\ UNCHANGED <<depthVars, best_go, analytics_consent, secrets>>

\* sidebar button "Trolling depth calculator": the page computes the depth
NavDepth ==
  /\ PastGate
  /\ tool' = "Trolling depth calculator"
  /\ Analytics(analytics_consent, "Trolling depth calculator", <<>>, TRUE)
  /\ depth' = trolling_depth(speed_mph, weight_oz, line_out_ft, line_type,
                             line_test_lb)
  /\ call' = NoCall
  /\ FreshRun
  /\ pc' = "idle"
  /\ UNCHANGED <<speed_mph, weight_oz, line_out_ft, line_type, line_test_lb,
                 lat, lon, best_go, analytics_consent, secrets>>

\* sidebar buttons "Species tips" and "Speedometer"
NavOther(t) ==
  /\ PastGate
  /\ tool' = t
  /\ Analytics(analytics_consent, t, <<>>, TRUE)
  /\ call' = NoCall
  /\ pc' = "idle"
  /\ FreshRun
  /\ UNCHANGED <<depthVars, lat, lon, best_go, analytics_consent, secrets>>

\* "Display Best Fishing Times" with the manual checkbox on
DisplayBestManual(lat_in, lon_in) ==
  /\ PastGate
  /\ tool = "Best fishing times"
  /\ Analytics(analytics_consent, tool,
               <<ga_send_event(analytics_consent, "action",
                               "display_best_times")>>, TRUE)
  /\ best_go' = TRUE
  /\ lat' = Some(lat_in)
  /\ lon' = Some(lon_in)
  /\ call' = NoCall
  /\ pc' = "dates"
  /\ FreshRun
  /\ UNCHANGED <<depthVars, tool, analytics_consent, secrets>>

\* "Display Best Fishing Times" with the manual checkbox off
DisplayBestAuto(resp) ==
  /\ PastGate
  /\ tool = "Best fishing times"
  /\ Analytics(analytics_consent, tool,
               <<ga_send_event(analytics_consent, "action",
                               "display_best_times")>>, TRUE)
  /\ best_go' = TRUE
  /\ StoreLocation(resp, "dates")
  /\ FreshRun
  /\ UNCHANGED <<depthVars, tool, analytics_consent, secrets>>

\* a rerun of the Best fishing times page with no button pressed
RerunBest ==
  /\ PastGate
  /\ tool = "Best fishing times"
  /\ Analytics(analytics_consent, tool, <<>>, TRUE)
  /\ call' = NoCall
  /\ pc' = IF best_go THEN "dates" ELSE "idle"
  /\ FreshRun
  /\ UNCHANGED <<depthVars, sessionVars, analytics_consent, secrets>>

\* "end_day < start_day" letting a range of one day backwards through
RangeInvertedByTwo(s, e) == e < s - 1

\* end_day < start_day
RangeInverted(s, e) == e < s

\* the date range section: the two date inputs, the guards, day_list
DateRange(s, e) ==
  /\ pc = "dates"
  /\ start_day' = s
  /\ end_day' = e
  /\ IF RangeInverted(s, e)
       THEN /\ page' = <<Item("warning", s,
                   "End date must be the same as or after start date.")>>
            /\ pc' = "idle"
            /\ UNCHANGED <<day_list, idx>>
       ELSE IF lat.absent \/ lon.absent
       THEN /\ page' = <<Item("info", s,
                   "Turn on manual and enter lat/lon, or tap the button again to use current location.")>>
            /\ pc' = "idle"
            /\ UNCHANGED <<day_list, idx>>
       ELSE LET days == DayListFrom(s, e, <<>>)
            IN  /\ day_list' = days
                /\ idx' = 1
                /\ pc' = "days"
                /\ page' = IF Len(days) = MaxDaysShown /\ e > days[Len(days)]
                             THEN <<Item("info", s,
                                     "Showing first 14 days only. Shorten the range to see more detail.")>>
                             ELSE <<>>
  /\ UNCHANGED <<depthVars, sessionVars, analyticsVars, call, sun_log, times,
                 wind, now_local, split>>

\* one pass of "for d in day_list": the header, best_times, the warning or
\* the two cards; an exception leaving best_times would end the run
RenderDay(resp) ==
  /\ pc = "days"
  /\ LET d == day_list[idx]
         n == Len(day_list)
         t == best_times(lat.val, lon.val, d, resp)
         header == Item("header", d, "day")
     IN  /\ call' = Called("get_sun_times", resp,
                           get_sun_times(lat.val, lon.val, d, resp))
         /\ sun_log' = Append(sun_log,
                              [day |-> d,
                               sun |-> get_sun_times(lat.val, lon.val, d, resp)])
         /\ times' = t
         /\ IF IsRaised(t)
              THEN /\ page' = Append(page, header)
                   /\ pc' = "crashed"
                   /\ idx' = idx
              ELSE IF t.absent
              THEN /\ page' = page \o
                        <<header,
                          Item("warning", d,
                               "Unable to calculate fishing times for this day.")>>
                   /\ idx' = AfterFailedDay(idx, n)
                   /\ pc' = IF AfterFailedDay(idx, n) > n THEN "idle" ELSE "days"
              ELSE /\ page' = page \o
                        <<header,
                          Card("Morning window", d, t.val.morning),
                          Card("Evening window", d, t.val.evening)>>
                   /\ idx' = idx + 1
                   /\ pc' = IF idx + 1 > n THEN "idle" ELSE "days"
  /\ UNCHANGED <<depthVars, sessionVars, analyticsVars, start_day, end_day,
                 day_list, wind, now_local, split>>

\* "Display winds" with the manual checkbox on
DisplayWindsManual(lat_in, lon_in) ==
  /\ PastGate
  /\ tool = "Wind forecast"
  /\ Analytics(analytics_consent, tool,
               <<ga_send_event(analytics_consent, "action", "display_winds")>>,
               TRUE)
  /\ lat' = Some(lat_in)
  /\ lon' = Some(lon_in)
  /\ call' = NoCall
  /\ pc' = "winds"
  /\ FreshRun
  /\ UNCHANGED <<depthVars, tool, best_go, analytics_consent, secrets>>

\* "Display winds" with the manual checkbox off
DisplayWindsAuto(resp) ==
  /\ PastGate
  /\ tool = "Wind forecast"
  /\ Analytics(analytics_consent, tool,
               <<ga_send_event(analytics_consent, "action", "display_winds")>>,
               TRUE)
  /\ StoreLocation(resp, "winds")
  /\ FreshRun
  /\ UNCHANGED <<depthVars, tool, best_go, analytics_consent, secrets>>

\* a rerun of the Wind forecast page with no button pressed
RerunWind ==
  /\ PastGate
  /\ tool = "Wind forecast"
  /\ Analytics(analytics_consent, tool, <<>>, TRUE)
  /\ call' = NoCall
  /\ pc' = "winds"
  /\ FreshRun
  /\ UNCHANGED <<depthVars, sessionVars, analytics_consent, secrets>>

\* the Wind forecast page without a location: the hint
WindsNoLocation ==
  /\ pc = "winds"
  /\ lat.absent \/ lon.absent
  /\ page' = <<Item("info", Today,
                    "Tap Display winds. If manual is on, enter lat/lon first.")>>
  /\ pc' = "idle"
  /\ UNCHANGED <<depthVars, sessionVars, analyticsVars, start_day, end_day,
                 day_list, idx, call, sun_log, times, wind, now_local, split>>

\* a card of the Wind forecast page: the label and str(mph) + " mph"
WindCard(entry) ==
  [kind |-> "card", day |-> entry[1].day, text |-> "wind",
   label |-> entry[1], mph |-> entry[2]]

\* "if entries:" the heading and one card for each entry
WindSection(heading, entries, day) ==
  IF entries = <<>> THEN <<>>
  ELSE <<Item("header", day, heading)>>
         \o [i \in 1 .. Len(entries) |-> WindCard(entries[i])]

\* the Wind forecast page with a location: get_wind_hours, datetime.now(),
\* split_current_future_winds, the cards; an exception leaving one of the
\* two functions ends the run
WindsFetch(resp, now) ==
  /\ pc = "winds"
  /\ ~lat.absent
  /\ ~lon.absent
  /\ LET w  == get_wind_hours(lat.val, lon.val, resp)
         sp == split_current_future_winds(w.val, now)
     IN  /\ call' = Called("get_wind_hours", resp, w)
         /\ wind' = w
         /\ IF IsRaised(w)
              THEN /\ pc' = "crashed"
                   /\ UNCHANGED <<now_local, split, page>>
              ELSE /\ now_local' = Some(now)
                   /\ split' = sp
                   /\ IF IsRaised(sp)
                        THEN /\ pc' = "crashed"
                             /\ UNCHANGED page
                        ELSE /\ pc' = "idle"
                             /\ page' =
                                  WindSection("Current winds", sp.val[1], now.day)
                                    \o WindSection("Future winds", sp.val[2],
                                                   now.day)
  /\ UNCHANGED <<depthVars, sessionVars, analyticsVars, start_day, end_day,
                 day_list, idx, sun_log, times>>

Next ==
  \/ \E choice \in {"accepted", "declined"} : ConsentChosen(choice)
  \/ \E r \in LocResponses : NavBestTimes(r)
  \/ \E r \in LocResponses : NavWind(r)
  \/ NavDepth
  \/ \E t \in {"Species tips", "Speedometer"} : NavOther(t)
  \/ \E a \in ManualLats, o \in ManualLons : DisplayBestManual(a, o)
  \/ \E r \in LocResponses : DisplayBestAuto(r)
  \/ RerunBest
  \/ \E s \in Days, e \in Days : DateRange(s, e)
  \/ pc = "days" /\ \E r \in SunResponses(day_list[idx]) : RenderDay(r)
  \/ \E a \in ManualLats, o \in ManualLons : DisplayWindsManual(a, o)
  \/ \E r \in LocResponses : DisplayWindsAuto(r)
  \/ RerunWind
  \/ WindsNoLocation
  \/ \E r \in WindResponses, now \in Nows : WindsFetch(r, now)

Spec == Init /\ [][Next]_vars

(***************************************************************************)
(* Trolling depth calculator page (src/app.py 1038-1059): every change of  *)
(* an input reruns the page, which calls trolling_depth on the inputs.     *)
(* The inputs range over the sets above, wider than the widgets allow.     *)
(***************************************************************************)
InitDepth ==
  /\ tool = "Trolling depth calculator"
  /\ InitSession
  /\ InitDepthInputs
  /\ analytics_consent = Some("declined")
  /\ ga_open_sent = TRUE
  /\ ga_last_tool = Some("Trolling depth calculator")
  /\ ga_client_id = None
  /\ secrets = [GA_ENABLED |-> TRUE, GA_MEASUREMENT_ID |-> "",
                GA_API_SECRET |-> ""]
  /\ events = <<>>
  /\ page = <<>>
  /\ depth = trolling_depth(DefaultSpeed, DefaultWeight, DefaultLineOut,
                            "Braid", DefaultLineTest)

SetSpeed(v) ==
  /\ v # speed_mph
  /\ speed_mph' = v
  /\ depth' = trolling_depth(v, weight_oz, line_out_ft, line_type, line_test_lb)
  /\ UNCHANGED <<weight_oz, line_out_ft, line_type, line_test_lb>>
  /\ UNCHANGED <<sessionVars, analyticsVars, runVars>>

SetWeight(v) ==
  /\ v # weight_oz
  /\ weight_oz' = v
  /\ depth' = trolling_depth(speed_mph, v, line_out_ft, line_type, line_test_lb)
  /\ UNCHANGED <<speed_mph, line_out_ft, line_type, line_test_lb>>
  /\ UNCHANGED <<sessionVars, analyticsVars, runVars>>

SetLineOut(v) ==
  /\ v # line_out_ft
  /\ line_out_ft' = v
  /\ depth' = trolling_depth(speed_mph, weight_oz, v, line_type, line_test_lb)
  /\ UNCHANGED <<speed_mph, weight_oz, line_type, line_test_lb>>
  /\ UNCHANGED <<sessionVars, analyticsVars, runVars>>

SetLineType(t) ==
  /\ t # line_type
  /\ line_type' = t
  /\ depth' = trolling_depth(speed_mph, weight_oz, line_out_ft, t, line_test_lb)
  /\ UNCHANGED <<speed_mph, weight_oz, line_out_ft, line_test_lb>>
  /\ UNCHANGED <<sessionVars, analyticsVars, runVars>>

SetLineTest(t) ==
  /\ t # line_test_lb
  /\ line_test_lb' = t
  /\ depth' = trolling_depth(speed_mph, weight_oz, line_out_ft, line_type, t)
  /\ UNCHANGED <<speed_mph, weight_oz, line_out_ft, line_type>>
  /\ UNCHANGED <<sessionVars, analyticsVars, runVars>>

NextDepth ==
  \/ \E v \in Speeds : SetSpeed(v)
  \/ \E v \in Weights : SetWeight(v)
  \/ \E v \in LinesOut : SetLineOut(v)
  \/ \E t \in TypesTried : SetLineType(t)
  \/ \E t \in LineTests : SetLineTest(t)

SpecDepth == InitDepth /\ [][NextDepth]_vars

(***************************************************************************)
(* The date range of the Best fishing times page (src/app.py 909-932) on   *)
(* ranges longer than the cap: the page is shown with a location, the      *)
(* dates change, and the script runs again up to the day list.             *)
(***************************************************************************)
\* the dates tried are Today .. Today + MaxRangeSpan
MaxRangeSpan == 15

RangeDays == Today .. Today + MaxRangeSpan

\* the page after "Display Best Fishing Times" with a manual location, at
\* the date inputs
InitRange ==
  /\ tool = "Best fishing times"
  /\ lat = Some(0)
  /\ lon = Some(-1800000)
  /\ best_go = TRUE
  /\ pc = "dates"
  /\ start_day = Today
  /\ end_day = Today
  /\ day_list = <<>>
  /\ idx = 0
  /\ page = <<>>
  /\ call = NoCall
  /\ sun_log = <<>>
  /\ times = None
  /\ wind = None
  /\ now_local = None
  /\ split = None
  /\ InitDepthInputs
  /\ depth = None
  /\ analytics_consent = Some("declined")
  /\ ga_open_sent = TRUE
  /\ ga_last_tool = Some("Best fishing times")
  /\ ga_client_id = None
  /\ secrets = [GA_ENABLED |-> TRUE, GA_MEASUREMENT_ID |-> "",
                GA_API_SECRET |-> ""]
  /\ events = <<ga_send_event(Some("declined"), "action", "display_best_times")>>

\* a date input changed while the days are being rendered: the run under
\* way is dropped and the script runs again
DatesChanged ==
  /\ pc = "days"
  /\ tool = "Best fishing times"
  /\ Analytics(analytics_consent, tool, <<>>, TRUE)
  /\ call' = NoCall
  /\ pc' = IF best_go THEN "dates" ELSE "idle"
  /\ FreshRun
  /\ UNCHANGED <<depthVars, sessionVars, analytics_consent, secrets>>

NextRange ==
  \/ \E s \in RangeDays, e \in RangeDays : DateRange(s, e)
  \/ DatesChanged
  \/ RerunBest

SpecRange == InitRange /\ [][NextRange]_vars

(***************************************************************************)
(* split_current_future_winds on forecasts longer than the lists it        *)
(* returns: hourly forecasts of up to MaxWindHours hours from 15:00 today, *)
(* with or without a key that is no timestamp, split at clock times around *)
(* and within them.                                                        *)
(***************************************************************************)
\* the longest forecast tried, in hours
MaxWindHours == 20

\* the h-th hour of a forecast, counted from 15:00 today
HourAt(h) == DateTime(Today + ((15 + h) \div 24), (15 + h) % 24, 0)

\* the keys a forecast may hold besides its hours: a text that is no
\* timestamp, or None (a null in the "time" list)
OtherKeys == [none |-> {}, text |-> {JStr(<<TextField>>)}, null |-> {JNull}]

\* the mapping of a forecast of n hours with the other keys named: an hour
\* 15:00 + h has (7 * h) mod 40 tenths of a mph
ForecastOf(n, other) ==
  [k \in {IsoStr(HourAt(h).day, HourAt(h).hh, 0) : h \in 0 .. n - 1}
           \cup OtherKeys[other]
     |-> IF k.t = "str" /\ k.fields[1].kind = "iso"
           THEN (7 * ((k.fields[1].day - Today) * 24 + k.fields[1].hh - 15)) % 40
           ELSE 42]

\* the clock times tried: on the hour and on the half hour, from the hour
\* before the forecast to the hour after it
ClockTimes ==
  {DateTime(HourAt(h).day, HourAt(h).hh, m) : h \in -1 .. MaxWindHours,
                                               m \in {0, 30}}

InitWinds ==
  /\ tool = "Wind forecast"
  /\ lat = Some(0)
  /\ lon = Some(-1800000)
  /\ best_go = FALSE
  /\ pc = "idle"
  /\ start_day = Today
  /\ end_day = Today
  /\ day_list = <<>>
  /\ idx = 0
  /\ page = <<>>
  /\ call = NoCall
  /\ sun_log = <<>>
  /\ times = None
  /\ wind = Some(ForecastOf(0, "none"))
  /\ now_local = Some(HourAt(0))
  /\ split = split_current_future_winds(ForecastOf(0, "none"), HourAt(0))
  /\ InitDepthInputs
  /\ depth = None
  /\ analytics_consent = Some("declined")
  /\ ga_open_sent = TRUE
  /\ ga_last_tool = Some("Wind forecast")
  /\ ga_client_id = None
  /\ secrets = [GA_ENABLED |-> TRUE, GA_MEASUREMENT_ID |-> "",
                GA_API_SECRET |-> ""]
  /\ events = <<>>

\* the page runs again with another forecast
ForecastChanges(n, other) ==
  /\ wind' = Some(ForecastOf(n, other))
  /\ wind' # wind
  /\ split' = split_current_future_winds(ForecastOf(n, other), now_local.val)
  /\ UNCHANGED <<depthVars, sessionVars, analyticsVars, pc, start_day, end_day,
                 day_list, idx, page, call, sun_log, times, now_local>>

\* the page runs again at another time
ClockMoves(now) ==
  /\ now_local' = Some(now)
  /\ now_local' # now_local
  /\ split' = split_current_future_winds(wind.val, now)
  /\ UNCHANGED <<depthVars, sessionVars, analyticsVars, pc, start_day, end_day,
                 day_list, idx, page, call, sun_log, times, wind>>

NextWinds ==
  \/ \E n \in 0 .. MaxWindHours, other \in DOMAIN OtherKeys :
       ForecastChanges(n, other)
  \/ \E now \in ClockTimes : ClockMoves(now)

SpecWinds == InitWinds /\ [][NextWinds]_vars

(***************************************************************************)
(* Properties of trolling_depth                                            *)
(***************************************************************************)
\* d is a number: neither None nor a raised exception
Numeric(d) == ~d.absent /\ "val" \in DOMAIN d

\* the inputs of the last call are valid: positive, with a known line type
ValidInputs ==
  /\ speed_mph > 0
  /\ weight_oz > 0
  /\ line_out_ft > 0
  /\ line_test_lb > 0
  /\ line_type \in LineTypes

\* 250 ft in tenths of a foot
ClampTenths == 250 * 10

\* C1: for all valid inputs the returned depth d is a number with
\* 0 <= d <= 250 ft.
C1_DepthClamped ==
  ValidInputs => Numeric(depth) /\ 0 <= depth.val /\ depth.val <= ClampTenths

\* C2: trolling_depth returns None (no number, no exception) whenever one of
\* speed, weight, line_out, line_test is <= 0, whatever the other parameters,
\* and a number whenever all four are > 0 and the line type is one of the three.
C2_Validation ==
  /\ (speed_mph <= 0 \/ weight_oz <= 0 \/ line_out_ft <= 0 \/ line_test_lb <= 0)
       => depth = None
  /\ ValidInputs => Numeric(depth)

\* the spec's example: speed 0, weight 8 oz, 120 ft, Braid gives None
C2_Witness ==
  /\ speed_mph = 0
  /\ weight_oz = 16
  /\ line_out_ft = 120
  /\ line_type = "Braid"
  /\ depth = None

\* both results of a step are numbers below 250 ft, from valid inputs
BothBelowClamp ==
  /\ ValidInputs
  /\ ValidInputs'
  /\ Numeric(depth)
  /\ Numeric(depth')
  /\ depth.val < ClampTenths
  /\ depth'.val < ClampTenths

\* C6 as stated: with the other inputs fixed the depth is strictly decreasing
\* in speed and strictly increasing in weight and in line out, for positive
\* inputs whose result does not reach 250 ft.
C6_StrictlyMonotone ==
  [][BothBelowClamp =>
       /\ (speed_mph' > speed_mph
             /\ UNCHANGED <<weight_oz, line_out_ft, line_type, line_test_lb>>)
            => depth'.val < depth.val
       /\ (weight_oz' > weight_oz
             /\ UNCHANGED <<speed_mph, line_out_ft, line_type, line_test_lb>>)
            => depth'.val > depth.val
       /\ (line_out_ft' > line_out_ft
             /\ UNCHANGED <<speed_mph, weight_oz, line_type, line_test_lb>>)
            => depth'.val > depth.val]_vars

\* C6 amended: with the other inputs fixed the depth never increases with
\* the speed and never decreases with the weight or the line out, for
\* positive inputs whose result does not reach 250 ft (two inputs can round
\* to the same tenth of a foot).
C6_WeaklyMonotone ==
  [][BothBelowClamp =>
       /\ (speed_mph' > speed_mph
             /\ UNCHANGED <<weight_oz, line_out_ft, line_type, line_test_lb>>)
            => depth'.val <= depth.val
       /\ (weight_oz' > weight_oz
             /\ UNCHANGED <<speed_mph, line_out_ft, line_type, line_test_lb>>)
            => depth'.val >= depth.val
       /\ (line_out_ft' > line_out_ft
             /\ UNCHANGED <<speed_mph, weight_oz, line_type, line_test_lb>>)
            => depth'.val >= depth.val]_vars

\* a depth below 250 ft that a higher speed leaves unchanged
C6_Witness ==
  /\ ValidInputs
  /\ Numeric(depth)
  /\ depth.val < ClampTenths
  /\ \E v \in Speeds :
       /\ v > speed_mph
       /\ trolling_depth(v, weight_oz, line_out_ft, line_type, line_test_lb)
            = depth

\* the claim's order of the line types, by drag
DragRank == [Braid |-> 1, Fluorocarbon |-> 2, Monofilament |-> 3]

\* C7: for identical valid speed, weight, line out and line test,
\* depth(Braid) >= depth(Fluorocarbon) >= depth(Monofilament), the drag
\* constants being exactly 1.00, 1.12 and 1.20.
C7_MaterialOrdering ==
  /\ TypeDrag.Braid * 100 = 100 * Scale
  /\ TypeDrag.Fluorocarbon * 100 = 112 * Scale
  /\ TypeDrag.Monofilament * 100 = 120 * Scale
  /\ [][(/\ ValidInputs
         /\ ValidInputs'
         /\ UNCHANGED <<speed_mph, weight_oz, line_out_ft, line_test_lb>>
         /\ DragRank[line_type'] > DragRank[line_type])
          => depth'.val <= depth.val]_vars

\* a Monofilament depth strictly less than the Braid depth of the same inputs
C7_Witness ==
  /\ ValidInputs
  /\ line_type = "Monofilament"
  /\ Numeric(depth)
  /\ depth.val <
       trolling_depth(speed_mph, weight_oz, line_out_ft, "Braid",
                      line_test_lb).val

\* the inputs of the spec's depth example: 1.5 mph, 8 oz, 120 ft, Braid, 20 lb
ExampleInputs ==
  /\ speed_mph = 15
  /\ weight_oz = 16
  /\ line_out_ft = 120
  /\ line_type = "Braid"
  /\ line_test_lb = BaselineTest

\* C8 as stated: the example returns 76.9 ft.
C8_Example769 == ExampleInputs => depth = Some(769)

\* C8 amended: the example returns 75.0 ft, which is
\* round(0.135 * (8 / (1.0 * 1.5^1.35)) * 120, 1).
C8_Example750 == ExampleInputs => depth = Some(750)

\* the example has been computed
C8_Witness == ExampleInputs /\ Numeric(depth)

(***************************************************************************)
(* Properties of the fetches and of the Best fishing times page            *)
(***************************************************************************)
\* x is a JSON string holding one timestamp that fromisoformat can read
ReadableTime(x) ==
  /\ x.t = "str"
  /\ Len(x.fields) = 1
  /\ x.fields[1].kind = "iso"
  /\ x.fields[1].hh \in 0 .. 23
  /\ x.fields[1].mm \in 0 .. 59

\* x is a JSON list whose first element is a readable timestamp
FirstIsTime(x) == x.t = "list" /\ Len(x.items) > 0 /\ ReadableTime(x.items[1])

\* the body holds daily.sunrise[0] and daily.sunset[0], both readable
HasSunTimes(body) ==
  /\ body.t = "dict"
  /\ "daily" \in DOMAIN body.keys
  /\ body.keys.daily.t = "dict"
  /\ {"sunrise", "sunset"} \subseteq DOMAIN body.keys.daily.keys
  /\ FirstIsTime(body.keys.daily.keys.sunrise)
  /\ FirstIsTime(body.keys.daily.keys.sunset)

\* the body holds a "loc" of two numbers
HasLocation(body) ==
  /\ body.t = "dict"
  /\ "loc" \in DOMAIN body.keys
  /\ body.keys.loc.t = "str"
  /\ Len(body.keys.loc.fields) = 2
  /\ \A k \in 1 .. 2 : body.keys.loc.fields[k].kind = "num"

\* the body holds hourly.time and hourly.wind_speed_10m, two lists, and every
\* speed that has a time is a number
HasWinds(body) ==
  /\ body.t = "dict"
  /\ "hourly" \in DOMAIN body.keys
  /\ body.keys.hourly.t = "dict"
  /\ {"time", "wind_speed_10m"} \subseteq DOMAIN body.keys.hourly.keys
  /\ body.keys.hourly.keys.time.t = "list"
  /\ body.keys.hourly.keys.wind_speed_10m.t = "list"
  /\ \A k \in 1 .. Len(body.keys.hourly.keys.wind_speed_10m.items) :
       k <= Len(body.keys.hourly.keys.time.items)
         => body.keys.hourly.keys.wind_speed_10m.items[k].t = "num"

\* the fields a function reads are in the body and readable
HasFields(fn, body) ==
  CASE fn = "get_location"   -> HasLocation(body)
    [] fn = "get_sun_times"  -> HasSunTimes(body)
    [] fn = "get_wind_hours" -> HasWinds(body)

\* the request timed out, or its body is not JSON, or a field the function
\* reads is missing or unreadable
BrokenAnswer(fn, resp) ==
  \/ resp.kind = "timeout"
  \/ resp.body.t = "notjson"
  \/ ~HasFields(fn, resp.body)

\* what each function returns for "unavailable"
AbsentValue(fn) ==
  CASE fn = "get_location"   -> Some(<<None, None>>)
    [] fn = "get_sun_times"  -> Some(<<None, None>>)
    [] fn = "get_wind_hours" -> Some(<<>>)

\* a call of get_sun_times has just returned a sunrise and a sunset
GotSunTimes ==
  /\ call.fn = "get_sun_times"
  /\ ~IsRaised(call.result)
  /\ ~call.result.val[1].absent
  /\ ~call.result.val[2].absent

\* minutes from the midnight that begins Today
Minutes(dt) == (dt.day - Today) * 1440 + dt.hh * 60 + dt.mm

\* w is a window of proper datetimes from one hour before c to one hour after
CentredOn(w, c) ==
  /\ \A k \in 1 .. 2 : w[k].hh \in 0 .. 23 /\ w[k].mm \in 0 .. 59
  /\ Minutes(w[1]) = Minutes(c) - 60
  /\ Minutes(w[2]) = Minutes(c) + 60
  /\ Minutes(w[1]) < Minutes(w[2])

At(day, hh, mm) == [day |-> day, hh |-> hh, mm |-> mm]

\* C3: whenever the fetch yields a sunrise S and a sunset T, best_times
\* returns morning = (S - 1 h, S + 1 h) and evening = (T - 1 h, T + 1 h):
\* each window starts before it ends and is centred on S or T; 07:30 and
\* 17:15 give 06:30-08:30 and 16:15-18:15.
C3_BiteWindows ==
  GotSunTimes =>
    LET S == call.result.val[1].val
        T == call.result.val[2].val
    IN  /\ ~IsRaised(times)
        /\ ~times.absent
        /\ CentredOn(times.val.morning, S)
        /\ CentredOn(times.val.evening, T)
        /\ (S.hh = 7 /\ S.mm = 30)
             => times.val.morning = <<At(S.day, 6, 30), At(S.day, 8, 30)>>
        /\ (T.hh = 17 /\ T.mm = 15)
             => times.val.evening = <<At(T.day, 16, 15), At(T.day, 18, 15)>>

\* the spec's example: sunrise 07:30 and sunset 17:15 have been fetched
C3_Witness ==
  /\ GotSunTimes
  /\ call.result.val[1].val.hh = 7
  /\ call.result.val[2].val.hh = 17
  /\ ~times.absent

\* the server's answer holds both a sunrise and a sunset for the day
FetchDelivers(resp) ==
  /\ resp.kind = "http"
  /\ ~(resp.status >= 400 /\ resp.status < 600)
  /\ resp.body.t # "notjson"
  /\ HasSunTimes(resp.body)

\* C4: if the fetch does not deliver both a sunrise and a sunset, best_times
\* returns None, never partial or made-up windows; if it delivers both,
\* best_times returns a result with both windows.
C4_NoneUnlessBothTimes ==
  call.fn = "get_sun_times" =>
    /\ ~FetchDelivers(call.resp) => times = None
    /\ FetchDelivers(call.resp) =>
         /\ ~IsRaised(times)
         /\ ~times.absent
         /\ DOMAIN times.val = {"morning", "evening"}

\* a forecast whose sunrise is null has been answered with None
C4_Witness ==
  /\ call.fn = "get_sun_times"
  /\ call.resp.kind = "http"
  /\ call.resp.status = 200
  /\ call.resp.body.t = "dict"
  /\ "daily" \in DOMAIN call.resp.body.keys
  /\ ~FetchDelivers(call.resp)
  /\ times = None

CycleHundredths(day) == (day * 100 - 245155010) % 2953

\* the phase is within 0.08 of 0, of 1 or of 0.5
NearNewOrFull(day) ==
  LET r == CycleHundredths(day)
  IN  \/ r * 100 <= 8 * 2953
      \/ (2953 - r) * 100 <= 8 * 2953
      \/ (2 * r - 2953) * 100 <= 16 * 2953 /\ (2953 - 2 * r) * 100 <= 16 * 2953

\* the note the spec gives a date
NoteFor(day) ==
  IF NearNewOrFull(day)
    THEN "often strong bite windows near new/full moon"
    ELSE "normal conditions"

\* C9: on success the result carries, besides the two windows, a note set by
\* the moon phase of the date: the new/full moon text exactly when the phase
\* is within 0.08 of 0, 1 or 0.5, the neutral text otherwise.
C9_MoonPhaseNote ==
  (call.fn = "get_sun_times" /\ ~IsRaised(times) /\ ~times.absent) =>
    /\ "note" \in DOMAIN times.val
    /\ times.val.note = NoteFor(sun_log[Len(sun_log)].day)

\* the fetch of the i-th day of this run gave no sunrise or no sunset
FetchFailed(i) ==
  sun_log[i].sun.val[1].absent \/ sun_log[i].sun.val[2].absent

ShowsWarning(d) ==
  \E k \in DOMAIN page :
    /\ page[k].kind = "warning"
    /\ page[k].day = d
    /\ page[k].text = "Unable to calculate fishing times for this day."

ShowsWindows(d) ==
  \A title \in {"Morning window", "Evening window"} :
    \E k \in DOMAIN page :
      page[k].kind = "card" /\ page[k].day = d /\ page[k].text = title

\* C10: a day whose sun-time fetch fails shows the "Unable to calculate"
\* warning, and the run goes on to every later day of the range: it is never
\* aborted, and every day whose fetch succeeded shows its windows.
C10_FailedDayDoesNotAbort ==
  /\ tool = "Best fishing times" => pc # "crashed"
  /\ \A i \in 1 .. Len(sun_log) :
       /\ sun_log[i].day = day_list[i]
       /\ FetchFailed(i)
            => ShowsWarning(day_list[i]) /\ ~ShowsWindows(day_list[i])
       /\ ~FetchFailed(i)
            => ShowsWindows(day_list[i]) /\ ~ShowsWarning(day_list[i])
  /\ (pc = "idle" /\ day_list # <<>>) => Len(sun_log) = Len(day_list)

\* a finished run whose first day failed and whose second day shows windows
C10_Witness ==
  /\ pc = "idle"
  /\ Len(sun_log) >= 2
  /\ FetchFailed(1)
  /\ ShowsWarning(day_list[1])
  /\ ~FetchFailed(2)
  /\ ShowsWindows(day_list[2])

(***************************************************************************)
(* Properties of the analytics                                             *)
(***************************************************************************)
\* the deployment has everything ga_send_event needs to post
Configured ==
  /\ secrets.GA_ENABLED
  /\ secrets.GA_MEASUREMENT_ID # ""
  /\ secrets.GA_API_SECRET # ""

\* some call of ga_send_event of the last render reached requests.post
SomePosted(evs) == \E i \in DOMAIN evs : evs[i].posted

\* what holds of every state for C11
ConsentRespected ==
  /\ SomePosted(events) => analytics_consent = Some("accepted")
  /\ analytics_consent # Some("accepted") => ga_client_id = None
  /\ analytics_consent = None =>
       /\ events = <<>>
       /\ ~ga_open_sent
       /\ tool = "Home"
       /\ call = NoCall
       /\ lat = None
       /\ lon = None
       /\ pc = "idle"
       /\ page = <<Item("banner", Today, "Analytics notice")>>

\* C11: an analytics event is posted only while analytics_consent is
\* "accepted": nothing is posted before the choice, and nothing is ever
\* posted in a session that declined (the choice, once made, stays, and no
\* client id is ever made for a post); while no choice is made the render
\* stops at the banner: no navigation, no tool page, no location lookup.
C11_PostedOnlyWithConsent ==
  /\ []ConsentRespected
  /\ [][analytics_consent # None => analytics_consent' = analytics_consent]_vars

\* a session that declined, on a deployment able to post, has pressed
\* "Display Best Fishing Times": the event was handed to ga_send_event and
\* not posted
C11_Witness ==
  /\ analytics_consent = Some("declined")
  /\ Configured
  /\ \E i \in DOMAIN events : events[i].name = "action" /\ ~events[i].posted
  /\ ga_client_id = None

(***************************************************************************)
(* Properties of the stored coordinate                                     *)
(***************************************************************************)
\* x is absent, or a number of 1/10000 degrees within -limit .. limit degrees
AbsentOrWithin(x, limit) ==
  x.absent \/ (x.val >= -limit * 10000 /\ x.val <= limit * 10000)

\* C12: in every reachable session state the stored coordinate is absent or
\* has latitude in [-90, 90] and longitude in [-180, 180], whether entered
\* manually or resolved by the IP lookup, and get_sun_times and
\* get_wind_hours are never called with a coordinate outside these ranges.
C12_CoordinateInRange ==
  /\ AbsentOrWithin(lat, 90)
  /\ AbsentOrWithin(lon, 180)
  /\ call.fn \in {"get_sun_times", "get_wind_hours"} =>
       /\ ~lat.absent
       /\ ~lon.absent
       /\ AbsentOrWithin(lat, 90)
       /\ AbsentOrWithin(lon, 180)

(***************************************************************************)
(* Properties of the render passes of the Best fishing times page          *)
(***************************************************************************)
\* in this pass the i-th fetch was for the i-th day, no day was fetched
\* twice, and the days gone through have had one fetch each
OneFetchPerDay ==
  /\ Len(sun_log) <= Len(day_list)
  /\ \A i \in 1 .. Len(sun_log) : sun_log[i].day = day_list[i]
  /\ \A i, j \in 1 .. Len(sun_log) : i # j => sun_log[i].day # sun_log[j].day
  /\ pc = "days" => Len(sun_log) = idx - 1
  /\ (pc = "idle" /\ day_list # <<>>) => Len(sun_log) = Len(day_list)

\* a step that starts a render pass keeps no fetch and no result of the
\* pass before
PassStartsEmpty == Resting => (sun_log' = <<>> /\ times' = None /\ wind' = None)

\* a step of the per-day loop makes one fetch, and what the day shows is what
\* that fetch was answered
DayShowsItsOwnFetch ==
  pc = "days" =>
    /\ call'.fn = "get_sun_times"
    /\ Len(sun_log') = Len(sun_log) + 1
    /\ \A i \in 1 .. Len(sun_log) : sun_log'[i] = sun_log[i]
    /\ sun_log'[Len(sun_log')].day = day_list[idx]
    /\ sun_log'[Len(sun_log')].sun = call'.result
    /\ (times' # None) <=> FetchDelivers(call'.resp)

\* C13: external calls are never retried and never served from a cache: in
\* one render pass each displayed day has exactly one sunrise/sunset fetch, a
\* failed fetch is not made again in that pass, and every later pass makes
\* its own fetches and reuses no result of an earlier pass.
C13_NoRetryNoCache ==
  /\ []OneFetchPerDay
  /\ [][PassStartsEmpty /\ DayShowsItsOwnFetch]_vars

\* a finished pass over two days whose fetches both failed: two fetches
C13_Witness ==
  /\ pc = "idle"
  /\ Len(day_list) = 2
  /\ Len(sun_log) = 2
  /\ FetchFailed(1)
  /\ FetchFailed(2)

\* the "first 14 days only" notice is on the page
ShowsCapNotice ==
  \E k \in DOMAIN page :
    /\ page[k].kind = "info"
    /\ page[k].text =
         "Showing first 14 days only. Shorten the range to see more detail."

\* what holds of the days of every pass that has a day list
DaysAreRangeCapped ==
  (pc = "days" \/ day_list # <<>>) =>
    LET n == end_day - start_day + 1
    IN  /\ n >= 1
        /\ Len(day_list) = (IF n <= 14 THEN n ELSE 14)
        /\ \A i \in 1 .. Len(day_list) :
             day_list[i] = start_day + (i - 1) /\ day_list[i] <= end_day
        /\ ShowsCapNotice <=> n > 14

\* with the end not before the start and a location, the days are listed
RangeIsListed ==
  (pc = "dates" /\ end_day' >= start_day' /\ ~lat.absent /\ ~lon.absent)
    => (pc' = "days" /\ day_list' # <<>> /\ idx' = 1)

\* C14: for a range with end_day >= start_day and a known location the days
\* processed are consecutive days beginning at start_day, none later than
\* end_day, at most 14 of them: the whole range when it has 14 days or fewer,
\* its first 14 days otherwise; the "Showing first 14 days only" notice is
\* shown exactly when the range has more than 14 days.
C14_RangeCappedAt14 ==
  /\ []DaysAreRangeCapped
  /\ [][RangeIsListed]_vars

\* a range of more than 14 days is listed: its first 14 days, with the notice
C14_Witness ==
  /\ pc = "days"
  /\ end_day - start_day + 1 > 14
  /\ Len(day_list) = 14
  /\ day_list[14] = start_day + 13
  /\ ShowsCapNotice

\* the page shows this text
ShowsText(kind, text) ==
  \E k \in DOMAIN page : page[k].kind = kind /\ page[k].text = text

ShowsRangeWarning ==
  ShowsText("warning", "End date must be the same as or after start date.")

ShowsLocationHint ==
  ShowsText("info",
            "Turn on manual and enter lat/lon, or tap the button again to use current location.")

\* a sun-time fetch has been made, or is about to be, in this pass
FetchingSunTimes ==
  pc = "days" \/ sun_log # <<>> \/ call.fn = "get_sun_times" \/ times # None

\* what holds of every state for C15
FetchOnlyPastGuards ==
  /\ FetchingSunTimes =>
       /\ tool = "Best fishing times"
       /\ best_go
       /\ end_day >= start_day
       /\ ~lat.absent
       /\ ~lon.absent
  /\ ShowsRangeWarning => (end_day < start_day /\ ~FetchingSunTimes)
  /\ ShowsLocationHint =>
       (end_day >= start_day /\ (lat.absent \/ lon.absent) /\ ~FetchingSunTimes)

\* what the date range section does when a guard fails
GuardsShowTheirText ==
  pc = "dates" =>
    /\ end_day' < start_day' => (ShowsRangeWarning' /\ pc' = "idle")
    /\ (end_day' >= start_day' /\ (lat.absent \/ lon.absent))
         => (ShowsLocationHint' /\ pc' = "idle")

\* C15: on the Best fishing times page bite windows are fetched and computed
\* only when end_day >= start_day and both lat and lon are present: with
\* end_day < start_day the page shows the "End date must be the same as or
\* after start date." warning and makes no sun-time fetch, and with a missing
\* coordinate it shows the location hint and makes no sun-time fetch.
C15_GuardsBeforeFetch ==
  /\ []FetchOnlyPastGuards
  /\ [][GuardsShowTheirText]_vars

\* a location is known and the range is backwards: the warning, no fetch
C15_Witness ==
  /\ ~lat.absent
  /\ ~lon.absent
  /\ end_day < start_day
  /\ ShowsRangeWarning
  /\ sun_log = <<>>
  /\ pc = "idle"

(***************************************************************************)
(* Properties of split_current_future_winds                                *)
(***************************************************************************)
\* the least of two numbers
Least(a, b) == IF a <= b THEN a ELSE b

\* the time a key that is a readable timestamp stands for
KeyTime(k) == At(k.fields[1].day, k.fields[1].hh, k.fields[1].mm)

\* list holds, in ascending order of time, the entries (label, mph) of the
\* keys of ks, which are the `shown` keys of ks that rank first when counted
\* from the end named: "latest" or "earliest"
HoldsRanked(list, ks, from, w) ==
  \A i \in 1 .. Len(list) :
    \E k \in ks :
      /\ list[i] = <<Label(KeyTime(k)), w[k]>>
      /\ IF from = "latest"
           THEN Cardinality({o \in ks : Minutes(KeyTime(o)) > Minutes(KeyTime(k))})
                  = Len(list) - i
           ELSE Cardinality({o \in ks : Minutes(KeyTime(o)) < Minutes(KeyTime(k))})
                  = i - 1

\* C16: split_current_future_winds partitions the parsable hourly entries by
\* the current time: "current" holds, in ascending order, the latest at most
\* 6 entries with time <= now, "future" the earliest at most 12 entries with
\* time > now, no entry is in both, and an entry whose key is no parsable
\* timestamp is skipped without failing the call.
C16_WindsPartitioned ==
  (~IsRaised(wind) /\ ~wind.absent /\ now_local # None) =>
    /\ ~IsRaised(split)
    /\ LET w      == wind.val
           now    == now_local.val
           stamps == {k \in DOMAIN w : ReadableTime(k)}
           past   == {k \in stamps : Minutes(KeyTime(k)) <= Minutes(now)}
           coming == stamps \ past
       IN  /\ Len(split.val[1]) = Least(6, Cardinality(past))
           /\ Len(split.val[2]) = Least(12, Cardinality(coming))
           /\ HoldsRanked(split.val[1], past, "latest", w)
           /\ HoldsRanked(split.val[2], coming, "earliest", w)

(***************************************************************************)
(* Properties of app_open and tool_open                                    *)
(***************************************************************************)
\* the positions in evs of the calls of ga_send_event for the event named
CallsOf(evs, name) == {i \in DOMAIN evs : evs[i].name = name}

\* what holds of every state for C17
AppOpenAfterChoice ==
  /\ Cardinality(CallsOf(events, "app_open")) <= 1
  /\ CallsOf(events, "app_open") # {} => (analytics_consent # None /\ ga_open_sent)
  /\ analytics_consent = None => ~ga_open_sent

\* a step that starts a render emits app_open only if none was emitted in the
\* session before, and marks the session
AppOpenFirstRenderOnly ==
  (Resting /\ CallsOf(events', "app_open") # {}) =>
    (~ga_open_sent /\ ga_open_sent' /\ analytics_consent' # None)

\* C17: app_open is emitted at most once per session, and only in a render
\* after the consent choice has been made: the render that emits it marks
\* the session, the mark is never taken back, and no later rerun, navigation
\* or button press emits app_open again.
C17_AppOpenOnce ==
  /\ []AppOpenAfterChoice
  /\ [][AppOpenFirstRenderOnly]_vars
  /\ [][ga_open_sent => ga_open_sent']_vars

\* a navigation later in a session that accepted: tool_open posted, app_open
\* not emitted again
C17_Witness ==
  /\ analytics_consent = Some("accepted")
  /\ ga_open_sent
  /\ tool = "Wind forecast"
  /\ CallsOf(events, "tool_open") # {}
  /\ CallsOf(events, "app_open") = {}
  /\ SomePosted(events)

\* a step that starts a render past the consent gate emits one tool_open,
\* naming the tool, if the tool differs from ga_last_tool, and none if not
ToolOpenOnChange ==
  (Resting /\ analytics_consent' # None) =>
    /\ Cardinality(CallsOf(events', "tool_open"))
         = (IF ga_last_tool # Some(tool') THEN 1 ELSE 0)
    /\ \A i \in CallsOf(events', "tool_open") : events'[i].params = tool'
    /\ ga_last_tool' = Some(tool')
    /\ (tool' = tool /\ analytics_consent # None)
         => CallsOf(events', "tool_open") = {}

\* C18: tool_open is emitted in a render exactly when the current tool
\* differs from the tool recorded in ga_last_tool, after which ga_last_tool
\* equals the current tool; reruns that leave the tool unchanged (input
\* changes, Display button presses) emit no tool_open, so each change of
\* tool produces one event and no more.
C18_ToolOpenOnChange ==
  /\ [](analytics_consent # None => ga_last_tool = Some(tool))
  /\ [][ToolOpenOnChange]_vars

\* "Display winds" pressed on the Wind forecast page: the action event, and
\* no tool_open
C18_Witness ==
  /\ tool = "Wind forecast"
  /\ ga_last_tool = Some("Wind forecast")
  /\ CallsOf(events, "action") # {}
  /\ CallsOf(events, "tool_open") = {}

(***************************************************************************)
(* Properties of the stored pair lat, lon                                  *)
(***************************************************************************)
\* a step that starts a render of one of the three tools without a location
\* leaves lat and lon alone; a step that writes lat or lon is a render of one
\* of the two tools with a location
PairWrittenByItsTools ==
  /\ (Resting /\ tool' \in {"Trolling depth calculator", "Species tips",
                            "Speedometer"})
       => (lat' = lat /\ lon' = lon)
  /\ (lat' # lat \/ lon' # lon)
       => (Resting /\ tool' \in {"Best fishing times", "Wind forecast"})

\* C19: in every reachable session state lat and lon are both absent or both
\* numbers: every operation that writes the coordinate writes the pair
\* together, and the navigation buttons for Trolling depth calculator,
\* Species tips and Speedometer leave lat and lon unchanged.
C19_PairTogether ==
  /\ [](lat.absent <=> lon.absent)
  /\ [][PairWrittenByItsTools]_vars

\* a resolved coordinate has been kept through a navigation to Species tips
C19_Witness ==
  /\ tool = "Species tips"
  /\ ~lat.absent
  /\ ~lon.absent

====
